---- MODULE Spec2Model ----
(***************************************************************************)
(* Image Password Manager: the image-fingerprint-to-credential pipeline    *)
(* (ImagePasswordSystem), the account operations of PasswordManager, the   *)
(* DatabaseClient and the account routes of the server.                    *)
(*                                                                         *)
(* Strings are sequences of character codes, so that string equality is    *)
(* the exact, case-sensitive equality of JavaScript's ===.                 *)
(***************************************************************************)
EXTENDS Integers, Sequences, FiniteSets, TLC

None == "none"

(***************************************************************************)
(* SHA-256 as computed by crypto.subtle.digest('SHA-256', data).           *)
(* A 32-bit word is a pair <<hi, lo>> of 16-bit halves.                    *)
(***************************************************************************)
RECURSIVE BitOp16(_, _, _, _)
BitOp16(op, a, b, n) ==
  IF n = 0 THEN 0
  ELSE LET x == a % 2
           y == b % 2
           r == IF op = "xor" THEN (x + y) % 2 ELSE x * y
       IN  r + 2 * BitOp16(op, a \div 2, b \div 2, n - 1)

Xor(a, b) == <<BitOp16("xor", a[1], b[1], 16), BitOp16("xor", a[2], b[2], 16)>>

And(a, b) == <<BitOp16("and", a[1], b[1], 16), BitOp16("and", a[2], b[2], 16)>>

Not(a) == <<65535 - a[1], 65535 - a[2]>>

RotR(a, n) ==
  LET w == IF n >= 16 THEN <<a[2], a[1]>> ELSE a
      m == n % 16
  IN  IF m = 0 THEN w
      ELSE <<(w[1] \div (2 ^ m)) + (w[2] % (2 ^ m)) * (2 ^ (16 - m)),
             (w[2] \div (2 ^ m)) + (w[1] % (2 ^ m)) * (2 ^ (16 - m))>>

ShR(a, n) ==
  IF n >= 16 THEN <<0, a[1] \div (2 ^ (n - 16))>>
  ELSE <<a[1] \div (2 ^ n), (a[2] \div (2 ^ n)) + (a[1] % (2 ^ n)) * (2 ^ (16 - n))>>

Add(a, b) ==
  LET lo == a[2] + b[2]
      hi == a[1] + b[1] + (lo \div 65536)
  IN  <<hi % 65536, lo % 65536>>

ShaK == <<
  <<17034, 12184>>, <<28983, 17553>>, <<46528, 64463>>, <<59829, 56229>>,
  <<14678, 49755>>, <<23025, 4593>>, <<37439, 33444>>, <<43804, 24277>>,
  <<55303, 43672>>, <<4739, 23297>>, <<9265, 34238>>, <<21772, 32195>>,
  <<29374, 23924>>, <<32990, 45566>>, <<39900, 1703>>, <<49563, 61812>>,
  <<58523, 27073>>, <<61374, 18310>>, <<4033, 40390>>, <<9228, 41420>>,
  <<11753, 11375>>, <<19060, 33962>>, <<23728, 43484>>, <<30457, 35034>>,
  <<38974, 20818>>, <<43057, 50797>>, <<45059, 10184>>, <<48985, 32711>>,
  <<50912, 3059>>, <<54695, 37191>>, <<1738, 25425>>, <<5161, 10599>>,
  <<10167, 2693>>, <<11803, 8504>>, <<19756, 28156>>, <<21304, 3347>>,
  <<25866, 29524>>, <<30314, 2747>>, <<33218, 51502>>, <<37490, 11397>>,
  <<41663, 59553>>, <<43034, 26187>>, <<49739, 35696>>, <<51052, 20899>>,
  <<53650, 59417>>, <<54937, 1572>>, <<62478, 13701>>, <<4202, 41072>>,
  <<6564, 49430>>, <<7735, 27656>>, <<10056, 30540>>, <<13488, 48309>>,
  <<14620, 3251>>, <<20184, 43594>>, <<23452, 51791>>, <<26670, 28659>>,
  <<29839, 33518>>, <<30885, 25455>>, <<33992, 30740>>, <<36039, 520>>,
  <<37054, 65530>>, <<42064, 27883>>, <<48889, 41975>>, <<50801, 30962>>
>>

ShaH0 == <<
  <<27145, 58983>>, <<47975, 44677>>, <<15470, 62322>>, <<42319, 62778>>,
  <<20750, 21119>>, <<39685, 26764>>, <<8067, 55723>>, <<23520, 52505>>
>>

BigSigma0(x) == Xor(Xor(RotR(x, 2), RotR(x, 13)), RotR(x, 22))

BigSigma1(x) == Xor(Xor(RotR(x, 6), RotR(x, 11)), RotR(x, 25))

SmallSigma0(x) == Xor(Xor(RotR(x, 7), RotR(x, 18)), ShR(x, 3))

SmallSigma1(x) == Xor(Xor(RotR(x, 17), RotR(x, 19)), ShR(x, 10))

Ch(x, y, z) == Xor(And(x, y), And(Not(x), z))

Maj(x, y, z) == Xor(Xor(And(x, y), And(x, z)), And(y, z))

\* The loops of this module run their iterations in order, n iterations
\* from a given index on; a run of n iterations is evaluated as two runs of
\* half the length, which keeps the depth of the evaluation logarithmic.
\* The test on the result of the first half (its length, its sign) is always
\* true: it makes TLC evaluate that result before the second half starts.
ScheduleStep(W, t) ==
  Append(W, Add(Add(SmallSigma1(W[t - 2]), W[t - 7]), Add(SmallSigma0(W[t - 15]), W[t - 16])))

RECURSIVE Schedule(_, _, _)
Schedule(W, t, n) ==
  IF n = 0 THEN W
  ELSE IF n = 1 THEN ScheduleStep(W, t)
  ELSE LET m == Schedule(W, t, n \div 2)
       IN  IF Len(m) > 0 THEN Schedule(m, t + (n \div 2), n - (n \div 2)) ELSE m

Round(s, W, t) ==
  LET T1 == Add(Add(Add(s[8], BigSigma1(s[5])), Add(Ch(s[5], s[6], s[7]), ShaK[t])), W[t])
      T2 == Add(BigSigma0(s[1]), Maj(s[1], s[2], s[3]))
  IN  <<Add(T1, T2), s[1], s[2], s[3], Add(s[4], T1), s[5], s[6], s[7]>>

RECURSIVE Rounds(_, _, _, _)
Rounds(s, W, t, n) ==
  IF n = 0 THEN s
  ELSE IF n = 1 THEN Round(s, W, t)
  ELSE LET m == Rounds(s, W, t, n \div 2)
       IN  IF Len(m) > 0 THEN Rounds(m, W, t + (n \div 2), n - (n \div 2)) ELSE m

Compress(h, block) ==
  LET W0 == [i \in 1..16 |-> <<block[4 * i - 3] * 256 + block[4 * i - 2],
                                block[4 * i - 1] * 256 + block[4 * i]>>]
      s == Rounds(h, Schedule(W0, 17, 48), 1, 64)
  IN  [i \in 1..8 |-> Add(h[i], s[i])]

Pad(bytes) ==
  LET n == Len(bytes)
      bits == 8 * n
  IN  bytes \o <<128>> \o [i \in 1..((119 - n) % 64) |-> 0] \o <<0, 0, 0, 0>>
        \o <<(bits \div 16777216) % 256, (bits \div 65536) % 256, (bits \div 256) % 256, bits % 256>>

RECURSIVE Blocks(_, _)
Blocks(h, bytes) ==
  IF Len(bytes) = 0 THEN h
  ELSE Blocks(Compress(h, SubSeq(bytes, 1, 64)), SubSeq(bytes, 65, Len(bytes)))

RECURSIVE WordsToBytes(_)
WordsToBytes(ws) ==
  IF Len(ws) = 0 THEN <<>>
  ELSE <<ws[1][1] \div 256, ws[1][1] % 256, ws[1][2] \div 256, ws[1][2] % 256>>
         \o WordsToBytes(Tail(ws))

Digest(bytes) == WordsToBytes(Blocks(ShaH0, Pad(bytes)))

(***************************************************************************)
(* JavaScript string and number helpers used by the hashing code.          *)
(***************************************************************************)
Min(a, b) == IF a < b THEN a ELSE b

\* String.prototype.substr(start, length), start counted from 0.
substr(s, start, length) == SubSeq(s, start + 1, Min(start + length, Len(s)))

\* Value of one digit character: '0'..'9', 'a'..'f', 'A'..'F'.
DigitValue(c) ==
  IF c >= 48 /\ c <= 57 THEN c - 48
  ELSE IF c >= 97 /\ c <= 102 THEN c - 87
  ELSE c - 55

\* parseInt(chunk, radix) on a non-empty string of digits of that radix.
RECURSIVE ParseDigits(_, _, _)
ParseDigits(chunk, radix, acc) ==
  IF Len(chunk) = 0 THEN acc
  ELSE ParseDigits(Tail(chunk), radix, acc * radix + DigitValue(Head(chunk)))

parseInt(chunk, radix) == ParseDigits(chunk, radix, 0)

\* The character Number.prototype.toString(16) writes for one digit value.
HexChar(d) == IF d < 10 THEN 48 + d ELSE 87 + d

\* Number.prototype.toString(16) for a non-negative integer: lowercase, no padding.
RECURSIVE toString16(_)
toString16(n) ==
  IF n < 16 THEN <<HexChar(n)>> ELSE toString16(n \div 16) \o <<HexChar(n % 16)>>

\* The digest bytes written without padding.
NoPad(s, targetLength) == s

\* String.prototype.padStart(targetLength, '0').
RECURSIVE padStart(_, _)
padStart(s, targetLength) ==
  IF Len(s) >= targetLength THEN s ELSE padStart(<<48>> \o s, targetLength)

\* TextEncoder.encode: UTF-8 bytes of the string (code points below 2048).
RECURSIVE encode(_)
encode(message) ==
  IF Len(message) = 0 THEN <<>>
  ELSE (IF Head(message) < 128 THEN <<Head(message)>>
        ELSE <<192 + (Head(message) \div 64), 128 + (Head(message) % 64)>>)
       \o encode(Tail(message))

\* hashArray.map(b => b.toString(16).padStart(2, '0')).join('')
RECURSIVE HexJoin(_)
HexJoin(hashArray) ==
  IF Len(hashArray) = 0 THEN <<>>
  ELSE padStart(toString16(Head(hashArray)), 2) \o HexJoin(Tail(hashArray))

\* ImagePasswordSystem.sha256, computed in full.
Sha256Hex(message) == HexJoin(Digest(encode(message)))

(***************************************************************************)
(* Images.  An image file is known to the hashing code only through the    *)
(* 8x8 canvas it is drawn on: Grid is the red channel of the 64 pixels in  *)
(* row-major order after drawImage(image, 0, 0, 8, 8) under the grayscale  *)
(* filter.  getImageData returns the RGBA bytes of those pixels.           *)
(***************************************************************************)
getImageData(grid) ==
  [i \in 1..(4 * Len(grid)) |->
     IF (i - 1) % 4 = 3 THEN 255 ELSE grid[((i - 1) \div 4) + 1]]

\* Number of iterations of for (let i = 0; i < length; i += step).
Iterations(length, step) == (length + step - 1) \div step

\* for (let i = 0; i < pixelData.length; i += 4) sum += pixelData[i]
\* n iterations from index i on.
RECURSIVE SumLoop(_, _, _, _)
SumLoop(pixelData, i, n, sum) ==
  IF n = 0 THEN sum
  ELSE IF n = 1 THEN sum + pixelData[i + 1]
  ELSE LET m == SumLoop(pixelData, i, n \div 2, sum)
       IN  IF m >= 0 THEN SumLoop(pixelData, i + 4 * (n \div 2), n - (n \div 2), m) ELSE m

\* The comparison turned round: a bit is set for a pixel below the average.
BelowAvg(p, sum, count) == p * count < sum

\* The comparison written with > in place of >=.
AboveAvg(p, sum, count) == p * count > sum

\* pixelData[i] >= avg, where avg = sum / (pixelData.length / 4).  The
\* quotient is exact in a double (sum < 2^14, divisor 64), so the comparison
\* is the comparison of the rationals.
AtLeastAvg(p, sum, count) == p * count >= sum

\* for (let i = 0; i < pixelData.length; i += 4) hash += pixelData[i] >= avg ? '1' : '0'
\* n iterations from index i on.
RECURSIVE HashLoop(_, _, _, _, _, _)
HashLoop(pixelData, i, n, sum, count, hash) ==
  IF n = 0 THEN hash
  ELSE IF n = 1
  THEN hash \o (IF AtLeastAvg(pixelData[i + 1], sum, count) THEN <<49>> ELSE <<48>>)
  ELSE LET m == HashLoop(pixelData, i, n \div 2, sum, count, hash)
       IN  IF Len(m) > 0
           THEN HashLoop(pixelData, i + 4 * (n \div 2), n - (n \div 2), sum, count, m)
           ELSE m

\* Sum of the elements lo..hi of a sequence of numbers.
RECURSIVE SumRange(_, _, _)
SumRange(s, lo, hi) ==
  IF lo > hi THEN 0
  ELSE IF lo = hi THEN s[lo]
  ELSE SumRange(s, lo, (lo + hi) \div 2) + SumRange(s, ((lo + hi) \div 2) + 1, hi)

\* The two loops written with i++ in place of i += 4: every byte of the
\* pixel data, alpha included, is taken for a pixel.
BinaryHashOfEveryByte(pixelData) ==
  LET sum == SumRange(pixelData, 1, Len(pixelData))
  IN  [i \in 1..Len(pixelData) |->
         IF pixelData[i] * (Len(pixelData) \div 4) >= sum THEN 49 ELSE 48]

\* The second loop started at the second pixel.
BinaryHashFromSecondPixel(pixelData) ==
  LET n == Iterations(Len(pixelData), 4)
  IN  HashLoop(pixelData, 4, n - 1, SumLoop(pixelData, 0, n, 0), Len(pixelData) \div 4, <<>>)

\* The binary string built by the two loops of generateImageHash.
BinaryHash(pixelData) ==
  LET n == Iterations(Len(pixelData), 4)
  IN  HashLoop(pixelData, 0, n, SumLoop(pixelData, 0, n, 0), Len(pixelData) \div 4, <<>>)

\* binaryToHex reading each chunk of four bits last bit first.
RECURSIVE binaryToHexLsbFirst(_, _, _, _)
binaryToHexLsbFirst(binary, i, n, hex) ==
  IF n = 0 THEN hex
  ELSE LET chunk == substr(binary, i, 4)
           reversed == [k \in 1..Len(chunk) |-> chunk[Len(chunk) + 1 - k]]
       IN  binaryToHexLsbFirst(binary, i + 4, n - 1, hex \o toString16(parseInt(reversed, 2)))

\* ImagePasswordSystem.binaryToHex: n iterations from index i on.
RECURSIVE binaryToHexLoop(_, _, _, _)
binaryToHexLoop(binary, i, n, hex) ==
  IF n = 0 THEN hex
  ELSE IF n = 1 THEN hex \o toString16(parseInt(substr(binary, i, 4), 2))
  ELSE LET m == binaryToHexLoop(binary, i, n \div 2, hex)
       IN  IF Len(m) > 0 THEN binaryToHexLoop(binary, i + 4 * (n \div 2), n - (n \div 2), m)
           ELSE m

binaryToHex(binary) == binaryToHexLoop(binary, 0, Iterations(Len(binary), 4), <<>>)

\* The copy of the hashing code inside ImagePasswordSystem.verifyImagePassword.
VerifyBinaryHash(pixelData) ==
  LET n == Iterations(Len(pixelData), 4)
  IN  HashLoop(pixelData, 0, n, SumLoop(pixelData, 0, n, 0), Len(pixelData) \div 4, <<>>)

\* The copy inside PasswordManager.calculateImagePerceptualHash, with its
\* own hex conversion loop.
PerceptualBinaryHash(pixelData) ==
  LET n == Iterations(Len(pixelData), 4)
  IN  HashLoop(pixelData, 0, n, SumLoop(pixelData, 0, n, 0), Len(pixelData) \div 4, <<>>)

RECURSIVE PerceptualHexLoop(_, _, _, _)
PerceptualHexLoop(hash, i, n, hexHash) ==
  IF n = 0 THEN hexHash
  ELSE IF n = 1 THEN hexHash \o toString16(parseInt(substr(hash, i, 4), 2))
  ELSE LET m == PerceptualHexLoop(hash, i, n \div 2, hexHash)
       IN  IF Len(m) > 0 THEN PerceptualHexLoop(hash, i + 4 * (n \div 2), n - (n \div 2), m)
           ELSE m

\* A conversion loop that stops one chunk early.
PerceptualHexShort(hash) == PerceptualHexLoop(hash, 0, Iterations(Len(hash), 4) - 1, <<>>)

PerceptualHex(hash) == PerceptualHexLoop(hash, 0, Iterations(Len(hash), 4), <<>>)

(***************************************************************************)
(* Bounds of the model.                                                    *)
(***************************************************************************)
\* Number of accounts created (readings of Date.now()) in one behaviour.
MaxCalls == 2

\* Number of runs of the drawing code on one digest.
MaxRuns == 2

MaxAccounts == 1

\* Number of reset timers that can be pending at once.
MaxTimers == 1

\* Number of luma levels of the grids the hashing functions are applied to.
NumLevels == 4

(***************************************************************************)
(* PasswordManager.generateRandomPassword and generateImageFromPassword.   *)
(***************************************************************************)
VARIABLES
  digest,   \* the SHA-256 digest (64 hexadecimal digits) the drawing code runs on
  drawn     \* the runs of the drawing code on it: values and drawing commands

charset ==
  <<65, 66, 67, 68, 69, 70, 71, 72, 73, 74, 75, 76, 77, 78, 79, 80, 81, 82, 83, 84, 85, 86, 87,
    88, 89, 90, 97, 98, 99, 100, 101, 102, 103, 104, 105, 106, 107, 108, 109, 110, 111, 112,
    113, 114, 115, 116, 117, 118, 119, 120, 121, 122, 48, 49, 50, 51, 52, 53, 54, 55, 56, 57,
    33, 64, 35, 36, 37, 94, 38, 42, 40, 41, 95, 43>>

\* generateRandomPassword(length) for the random bytes randomValues.
generateRandomPassword(randomValues) ==
  [i \in 1..Len(randomValues) |-> charset[(randomValues[i] % Len(charset)) + 1]]

\* The k-th outcome of window.crypto.getRandomValues on a Uint8Array(20).
RandomValues(k) == [i \in 1..20 |-> (k * 89 + i * 57) % 256]

\* for (let i = 0; i < hash.length; i += 2) values.push(parseInt(hash.substr(i, 2), 16))
\* n iterations from index i on.
RECURSIVE ValuesLoop(_, _, _, _)
ValuesLoop(hash, i, n, values) ==
  IF n = 0 THEN values
  ELSE IF n = 1 THEN Append(values, parseInt(substr(hash, i, 2), 16))
  ELSE LET m == ValuesLoop(hash, i, n \div 2, values)
       IN  IF Len(m) > 0 THEN ValuesLoop(hash, i + 2 * (n \div 2), n - (n \div 2), m) ELSE m

\* values[j] with j counted from 0.
At(values, j) == values[j + 1]

canvasWidth == 256

canvasHeight == 256

\* A shape count taken modulo 31.
numShapesMod31(values) == 20 + (At(values, 3) % 31)

\* const numShapes = 20 + (values[3] % 30)
numShapes(values) == 20 + (At(values, 3) % 30)

\* The i-th shape drawn.  x, y and size are the numerators of the fractions
\* (v / 255) * canvas.width, (v / 255) * canvas.height and 10 + (v / 255) * 50
\* over the denominator 255.
Shape(values, i) ==
  LET colorIndex == (i * 3) % Len(values)
  IN  [r |-> At(values, colorIndex % Len(values)),
       g |-> At(values, (colorIndex + 1) % Len(values)),
       b |-> At(values, (colorIndex + 2) % Len(values)),
       shapeType |-> At(values, (i + 4) % Len(values)) % 3,
       x |-> At(values, (i + 5) % Len(values)) * canvasWidth,
       y |-> At(values, (i + 6) % Len(values)) * canvasHeight,
       size |-> 10 * 255 + At(values, (i + 7) % Len(values)) * 50]

\* Strokes whose start moves with the number of runs made so far.
StrokeByRun(values, i) ==
  [startX |-> (At(values, (i * 2 + 12) % Len(values)) + Len(drawn)) * canvasWidth,
   startY |-> At(values, (i * 2 + 13) % Len(values)) * canvasHeight,
   endX |-> At(values, (i * 2 + 14) % Len(values)) * canvasWidth,
   endY |-> At(values, (i * 2 + 15) % Len(values)) * canvasHeight]

\* The i-th of the five strokes; coordinates are numerators over 255.
Stroke(values, i) ==
  [startX |-> At(values, (i * 2 + 12) % Len(values)) * canvasWidth,
   startY |-> At(values, (i * 2 + 13) % Len(values)) * canvasHeight,
   endX |-> At(values, (i * 2 + 14) % Len(values)) * canvasWidth,
   endY |-> At(values, (i * 2 + 15) % Len(values)) * canvasHeight]

\* The array values generateImageFromPassword fills from the digest hash.
HashValues(hash) == ValuesLoop(hash, 0, Iterations(Len(hash), 2), <<>>)

\* The drawing commands generateImageFromPassword issues for the digest hash.
DrawCommands(hash) ==
  LET values == HashValues(hash)
  IN  [background |-> <<At(values, 0), At(values, 1), At(values, 2)>>,
       shapes |-> [i \in 1..numShapes(values) |-> Shape(values, i - 1)],
       strokeStyle |-> <<At(values, 8), At(values, 9), At(values, 10)>>,
       lineWidth |-> 2 + (At(values, 11) % 4),
       strokes |-> [i \in 1..5 |-> Stroke(values, i - 1)]]

\* The digest whose j-th byte (from 1) is (step * j + base) mod 256.
BytesDigest(step, base) == HexJoin([j \in 1..32 |-> (step * j + base) % 256])

\* The digests the drawing code is run on: every byte value at every index.
TestDigests == {BytesDigest(step, base) : step \in {0, 1, 37}, base \in 0..255}

\* generateImageFromPassword from the digest on: one run of the drawing code.
Draw ==
  /\ Len(drawn) < MaxRuns
  /\ drawn' = Append(drawn, [values |-> HashValues(digest), commands |-> DrawCommands(digest)])
  /\ UNCHANGED digest

(***************************************************************************)
(* The canvas.  The browser's rasterisation is abstracted: the 8x8 canvas  *)
(* of the hashing code shows, for each cell, the colour at the centre of   *)
(* the 32x32 block of the 256x256 picture, painted shape over shape with   *)
(* alpha 0.7, and the grayscale filter takes the Rec. 709 luma.  Strokes   *)
(* are thin against a block and are left out of the sample.                *)
(***************************************************************************)
Inside(shape, px, py) ==
  LET x == shape.x \div 255
      y == shape.y \div 255
      size == shape.size \div 255
      h == size \div 2
  IN  IF shape.shapeType = 0
      THEN (px - x) * (px - x) + (py - y) * (py - y) <= size * size
      ELSE IF shape.shapeType = 1
      THEN px >= x /\ px < x + size /\ py >= y /\ py < y + size
      ELSE /\ py >= y - h
           /\ py <= y + h
           /\ 2 * (IF px >= x THEN px - x ELSE x - px) <= py - (y - h)

Blend(under, shape) ==
  <<(7 * shape.r + 3 * under[1]) \div 10,
    (7 * shape.g + 3 * under[2]) \div 10,
    (7 * shape.b + 3 * under[3]) \div 10>>

\* The colour at (px, py) after painting n shapes from the i-th on.
RECURSIVE Paint(_, _, _, _, _, _)
Paint(shapes, i, n, px, py, colour) ==
  IF n = 0 THEN colour
  ELSE IF n = 1
  THEN (IF Inside(shapes[i], px, py) THEN Blend(colour, shapes[i]) ELSE colour)
  ELSE LET m == Paint(shapes, i, n \div 2, px, py, colour)
       IN  IF Len(m) > 0 THEN Paint(shapes, i + (n \div 2), n - (n \div 2), px, py, m) ELSE m

Luma(colour) == (2126 * colour[1] + 7152 * colour[2] + 722 * colour[3]) \div 10000

\* The 8x8 grid the drawing commands decode to.
Rasterize(commands) ==
  [k \in 1..64 |->
     Luma(Paint(commands.shapes, 1, Len(commands.shapes),
                32 * ((k - 1) % 8) + 16, 32 * ((k - 1) \div 8) + 16, commands.background))]

(***************************************************************************)
(* Files.  A file is a pair <<kind, grid>>: an "image" file decodes to the *)
(* 8x8 grid the canvas shows for it; a "corrupt" file is read by the       *)
(* FileReader but the Image element fires onerror for it.                  *)
(***************************************************************************)
NoFile == <<"nofile", <<>>>>

CorruptFile == <<"corrupt", <<>>>>

ImageFile(grid) == <<"image", grid>>

\* The photographs of the user: the first is bright on the left half of
\* each row and dark on the right, the second is its negative, the others
\* are textures.
PhotoGrid(j) ==
  [k \in 1..64 |->
     IF j = 1 THEN (IF (k - 1) % 8 < 4 THEN 200 ELSE 50)
     ELSE IF j = 2 THEN (IF (k - 1) % 8 < 4 THEN 55 ELSE 205)
     ELSE (k * (29 * j) + 31 * j) % 256]

Photos == {ImageFile(PhotoGrid(j)) : j \in {1, 2}}

\* The draws of crypto.getRandomValues the model considers.
RandomDraws == {RandomValues(1)}

Seeds == {generateRandomPassword(randomValues) : randomValues \in RandomDraws}

\* The images generateImageFromPassword renders for the seeds of the model,
\* tabulated once.
RenderedTable == [seed \in Seeds |-> ImageFile(Rasterize(DrawCommands(Sha256Hex(seed))))]

\* The grids of the images of the model.  The fingerprints the three hashing
\* paths compute for them are tabulated once; any other grid is hashed in full.
TabulatedGrids == {f[2] : f \in Photos} \cup {RenderedTable[seed][2] : seed \in Seeds}

ImageHashTable == [grid \in TabulatedGrids |-> binaryToHex(BinaryHash(getImageData(grid)))]

\* ImagePasswordSystem.generateImageHash, from the pixel data on.
generateImageHash(grid) ==
  IF grid \in TabulatedGrids THEN ImageHashTable[grid]
  ELSE binaryToHex(BinaryHash(getImageData(grid)))

VerifyHashTable ==
  [grid \in TabulatedGrids |-> binaryToHex(VerifyBinaryHash(getImageData(grid)))]

\* The fingerprint ImagePasswordSystem.verifyImagePassword computes.
verifyImagePasswordHash(grid) ==
  IF grid \in TabulatedGrids THEN VerifyHashTable[grid]
  ELSE binaryToHex(VerifyBinaryHash(getImageData(grid)))

PerceptualHashTable ==
  [grid \in TabulatedGrids |-> PerceptualHex(PerceptualBinaryHash(getImageData(grid)))]

\* PasswordManager.calculateImagePerceptualHash, from the pixel data on.
calculateImagePerceptualHash(grid) ==
  IF grid \in TabulatedGrids THEN PerceptualHashTable[grid]
  ELSE PerceptualHex(PerceptualBinaryHash(getImageData(grid)))

\* ImagePasswordSystem.sha256.  The digests of the messages the model hashes
\* are tabulated once; any other message is hashed in full.
TabulatedMessages ==
  Seeds
    \cup {generateImageHash(f[2]) : f \in Photos}
    \cup {calculateImagePerceptualHash(RenderedTable[seed][2]) : seed \in Seeds}

Sha256Table == [message \in TabulatedMessages |-> Sha256Hex(message)]

sha256(message) ==
  IF message \in TabulatedMessages THEN Sha256Table[message] ELSE Sha256Hex(message)

\* generatePassword returning the fingerprint as it is.
Unhashed(hash) == hash

\* ImagePasswordSystem.generatePassword
generatePassword(hash) == sha256(hash)

\* PasswordManager.generateImageFromPassword: the PNG blob, as the file the
\* user downloads.
generateImageFromPassword(password) ==
  IF password \in Seeds THEN RenderedTable[password]
  ELSE ImageFile(Rasterize(DrawCommands(sha256(password))))

\* A loader that reports every file as a decodable image.
AlwaysLoads(file) == TRUE

\* ImagePasswordSystem.loadImage: does the Image element fire onload?
loadImage(file) == file[1] = "image"

(***************************************************************************)
(* The hashing functions applied to grids: inputs and results.             *)
(***************************************************************************)
VARIABLES hashIn, hashOut

VARIABLES
  canvas,   \* this.canvas of the ImagePasswordSystem: 64 cells <<red, alpha>>
  calls     \* the calls of generateImageHash on that instance

Levels == {(j * 85) % 256 : j \in 0..(NumLevels - 1)}

\* Grids of three bands a, b, c of k1, k2 and 64 - k1 - k2 cells, the cells
\* of a band spread over the grid by the stride m.
BandGrid(a, b, c, k1, k2, m) ==
  [k \in 1..64 |->
     LET pos == (k * m) % 64
     IN  IF pos < k1 THEN a ELSE IF pos < k1 + k2 THEN b ELSE c]

TestGrids ==
  {BandGrid(a, b, c, k1, k2, m) :
     a \in Levels, b \in Levels, c \in Levels, k1 \in {0, 16, 31}, k2 \in {0, 16, 33}, m \in {1, 5}}

NoHash == [path |-> "none", binary |-> <<>>, hex |-> <<>>]

HashGenerate ==
  /\ hashOut.path = "none"
  /\ hashOut' = [path |-> "generateImageHash",
                 binary |-> BinaryHash(getImageData(hashIn)),
                 hex |-> generateImageHash(hashIn)]
  /\ UNCHANGED hashIn

HashVerify ==
  /\ hashOut.path = "none"
  /\ hashOut' = [path |-> "verifyImagePassword",
                 binary |-> VerifyBinaryHash(getImageData(hashIn)),
                 hex |-> verifyImagePasswordHash(hashIn)]
  /\ UNCHANGED hashIn

HashPerceptual ==
  /\ hashOut.path = "none"
  /\ hashOut' = [path |-> "calculateImagePerceptualHash",
                 binary |-> PerceptualBinaryHash(getImageData(hashIn)),
                 hex |-> calculateImagePerceptualHash(hashIn)]
  /\ UNCHANGED hashIn

(***************************************************************************)
(* The application state.                                                  *)
(***************************************************************************)
VARIABLES
  accounts,         \* PasswordManager.accounts
  serverDb,         \* rows of the accounts table, in insertion order
  localStorage,     \* <<>> when the key imagePasswordAccounts is absent, else <<array>>
  fallbackShown,    \* sessionStorage flag fallbackMessageShown
  clock,            \* number of readings of Date.now() so far
  load,             \* position of loadAccounts
  reg,              \* position and locals of registerAccount
  gen,              \* position and locals of generateImagePassword
  ver,              \* position and locals of verifyImage
  timers,           \* pending setTimeout(fullResetVerification, 2000) callbacks
  selected,         \* value of #account-selector
  verifyFile,       \* file chosen in #verify-image
  detailsVisible,   \* #account-details is displayed
  accountUsername,  \* text of #account-username
  alert,            \* type of the alert on display in #alert-message, None when hidden
  downloads,        \* generated images the user has downloaded
  registered,       \* history: how each account id was created
  lastVerify,       \* history: the verification the last step ended, if any
  failed            \* history: the handler whose catch block the last step ran, if any

VARIABLES
  patient,  \* whether the user lets every handler run to its end before acting again
  fetched   \* the answer of getAllAccounts loadAccounts is about to assign

appVars ==
  <<accounts, serverDb, localStorage, fallbackShown, clock, load, reg, gen, ver, timers,
    selected, verifyFile, detailsVisible, accountUsername, alert, downloads, registered,
    lastVerify, failed>>

hashVars == <<hashIn, hashOut>>

canvasVars == <<canvas, calls>>

drawVars == <<digest, drawn>>

raceVars == <<patient, fetched>>

vars == <<appVars, hashVars, canvasVars, drawVars, raceVars>>

Undefined == "<undefined>"

Null == "<null>"

\* JavaScript falsiness of an optional string.
Falsy(v) == v \in {Undefined, Null, ""}

Names == {"site1"}

\* Date.now().toString() and new Date().toISOString() at reading t of the clock.
DateNow(t) == ToString(t)

ISOString(t) == "T" \o ToString(t)

Account(id, name, username, password, notes, type, rawSeed, createdAt) ==
  [id |-> id, name |-> name, username |-> username, password |-> password, notes |-> notes,
   type |-> type, rawSeed |-> rawSeed, createdAt |-> createdAt]

(***************************************************************************)
(* The server: the accounts table and its routes.                          *)
(***************************************************************************)
\* POST /api/accounts: the status and the table after the request.
PostAccounts(db, body, now) ==
  IF Falsy(body.id) \/ Falsy(body.name) \/ Falsy(body.username) \/ Len(body.password) = 0
  THEN [status |-> 400, db |-> db]
  ELSE IF \E i \in 1..Len(db) : db[i].id = body.id
  THEN [status |-> 500, db |-> db]
  ELSE [status |-> 201,
        db |-> Append(db, Account(body.id, body.name, body.username, body.password,
                                  IF Falsy(body.notes) THEN "" ELSE body.notes,
                                  IF Falsy(body.type) THEN "uploaded" ELSE body.type,
                                  IF body.rawSeed = Undefined THEN Null ELSE body.rawSeed,
                                  IF Falsy(body.createdAt) THEN ISOString(now)
                                  ELSE body.createdAt))]

\* PUT /api/accounts/:id
PutAccount(db, id, body) ==
  IF Falsy(body.name) \/ Falsy(body.username) \/ Len(body.password) = 0
  THEN [status |-> 400, db |-> db]
  ELSE IF ~ \E i \in 1..Len(db) : db[i].id = id
  THEN [status |-> 404, db |-> db]
  ELSE [status |-> 200,
        db |-> [i \in 1..Len(db) |->
                  IF db[i].id = id
                  THEN [db[i] EXCEPT !.name = body.name, !.username = body.username,
                                     !.password = body.password,
                                     !.notes = IF Falsy(body.notes) THEN "" ELSE body.notes]
                  ELSE db[i]]]

\* Array.prototype.filter(account => account.id !== id)
RECURSIVE FilterOut(_, _)
FilterOut(list, id) ==
  IF Len(list) = 0 THEN <<>>
  ELSE (IF Head(list).id # id THEN <<Head(list)>> ELSE <<>>) \o FilterOut(Tail(list), id)

\* DELETE /api/accounts/:id
DeleteAccountRoute(db, id) ==
  IF ~ \E i \in 1..Len(db) : db[i].id = id
  THEN [status |-> 404, db |-> db]
  ELSE [status |-> 200, db |-> FilterOut(db, id)]

(***************************************************************************)
(* DatabaseClient.  serverUp says whether fetch reaches the server.        *)
(***************************************************************************)
\* JSON.parse(localStorage.getItem('imagePasswordAccounts')), [] when absent.
SavedAccounts(ls) == IF Len(ls) = 0 THEN <<>> ELSE ls[1]

\* DatabaseClient.getAllAccounts
getAllAccounts(db, ls, serverUp) == IF serverUp THEN db ELSE SavedAccounts(ls)

\* DatabaseClient.getAccount(id): the rows with that id in the table or, when
\* the server is down, in localStorage; null is the empty sequence.
getAccount(db, ls, id, serverUp) ==
  SelectSeq(IF serverUp THEN db ELSE SavedAccounts(ls), LAMBDA account : account.id = id)

\* The object DatabaseClient.addAccount(id, name, username, password, notes,
\* createdAt) builds from its six parameters.
accountData(id, name, username, password, notes, createdAt, now) ==
  Account(id, name, username, password, IF Falsy(notes) THEN "" ELSE notes,
          Undefined, Undefined, IF Falsy(createdAt) THEN ISOString(now) ELSE createdAt)

\* DatabaseClient.addAccount called with the argument list args: JavaScript
\* binds the first six arguments to the six parameters and drops the rest.
\* The result is the table and the localStorage item after the call.
addAccount(db, ls, args, serverUp, now) ==
  LET data == accountData(args[1], args[2], args[3], args[4], args[5], args[6], now)
      post == PostAccounts(db, data, now)
  IN  IF serverUp /\ post.status = 201
      THEN [db |-> post.db, ls |-> ls, fallback |-> FALSE]
      ELSE [db |-> db, ls |-> <<Append(SavedAccounts(ls), data)>>, fallback |-> TRUE]

\* The argument list PasswordManager passes to addAccount.
AddAccountArgs(newAccount) ==
  <<newAccount.id, newAccount.name, newAccount.username, newAccount.password,
    newAccount.notes, newAccount.type, Null, newAccount.createdAt>>

\* DatabaseClient.updateAccount(id, data); threw says whether it throws.
updateAccount(db, ls, id, data, serverUp) ==
  LET put == PutAccount(db, id, data)
      saved == SavedAccounts(ls)
  IN  IF serverUp /\ put.status = 200
      THEN [db |-> put.db, ls |-> ls, fallback |-> FALSE, threw |-> FALSE]
      ELSE IF Len(ls) = 0 \/ ~ \E i \in 1..Len(saved) : saved[i].id = id
      THEN [db |-> db, ls |-> ls, fallback |-> TRUE, threw |-> TRUE]
      ELSE LET index == CHOOSE i \in 1..Len(saved) :
                          saved[i].id = id /\ \A j \in 1..(i - 1) : saved[j].id # id
           IN  [db |-> db,
                ls |-> <<[saved EXCEPT ![index] =
                            [saved[index] EXCEPT !.name = data.name,
                                                 !.username = data.username,
                                                 !.password = data.password,
                                                 !.notes = data.notes]]>>,
                fallback |-> TRUE, threw |-> FALSE]

\* DatabaseClient.deleteAccount(id)
deleteAccount(db, ls, id, serverUp) ==
  LET del == DeleteAccountRoute(db, id)
  IN  IF serverUp /\ del.status = 200
      THEN [db |-> del.db, ls |-> ls, fallback |-> FALSE, threw |-> FALSE]
      ELSE IF Len(ls) = 0
      THEN [db |-> db, ls |-> ls, fallback |-> TRUE, threw |-> TRUE]
      ELSE [db |-> db, ls |-> <<FilterOut(ls[1], id)>>, fallback |-> TRUE, threw |-> FALSE]

\* DatabaseClient.fallbackToLocalStorage: the alert on display after it ran.
fallbackToLocalStorage(message, shown, current) == IF shown THEN current ELSE "warning"

\* PasswordManager.showAlert(message, type): the alert on display.  The model
\* keeps the type of the alert (its class alert-<type>), not its text.
showAlert(message, type) == type

(***************************************************************************)
(* PasswordManager.                                                        *)
(***************************************************************************)
NoAccount == Account("", "", "", <<>>, "", Undefined, Undefined, "")

IdleReg == [pc |-> "idle", name |-> "", username |-> "", file |-> NoFile, newAccount |-> NoAccount]

IdleGen ==
  [pc |-> "idle", name |-> "", username |-> "", rawPassword |-> <<>>, imageBlob |-> NoFile,
   newAccount |-> NoAccount]

IdleVer == [pc |-> "idle", accountId |-> "", file |-> NoFile, account |-> NoAccount]

NoVerify ==
  [outcome |-> "none", accountId |-> "", type |-> Undefined, password |-> <<>>, file |-> NoFile]

\* The files the user can put in a file input.
UserFiles == Photos \cup {CorruptFile} \cup downloads

\* this.accounts.some(account => account.name === accountName)
NameTaken(accountName) == \E i \in 1..Len(accounts) : accounts[i].name = accountName

\* this.accounts.find(acc => acc.id === accountId)
Find(accountId) ==
  accounts[CHOOSE i \in 1..Len(accounts) :
             accounts[i].id = accountId /\ \A j \in 1..(i - 1) : accounts[j].id # accountId]

\* No answer of getAllAccounts is waiting to be assigned.
NoFetch == [accounts |-> <<>>, serverUp |-> TRUE]

\* The bounds on the accounts created and on the timers pending.  They are
\* one higher when the user does not wait, so that two handlers can be in
\* flight at once.
AccountLimit == IF patient THEN MaxAccounts ELSE MaxAccounts + 1

TimerLimit == IF patient THEN MaxTimers ELSE MaxTimers + 1

\* Accounts whose creation has started and that have not read Date.now() yet.
AwaitingId == (IF reg.pc = "hashing" THEN 1 ELSE 0) + (IF gen.pc = "rendering" THEN 1 ELSE 0)

\* registerAccount up to its first await.
RegisterStart(accountName, username, imageFile) ==
  /\ reg.pc = "idle"
  /\ IF accountName = "" THEN
       /\ alert' = showAlert("Please enter an account name", "danger")
       /\ UNCHANGED reg
     ELSE IF username = "" THEN
       /\ alert' = showAlert("Please enter a username", "danger")
       /\ UNCHANGED reg
     ELSE IF imageFile = NoFile THEN
       /\ alert' = showAlert("Please select an image", "danger")
       /\ UNCHANGED reg
     ELSE IF NameTaken(accountName) THEN
       /\ alert' = showAlert("An account with this name already exists", "danger")
       /\ UNCHANGED reg
     ELSE
       /\ clock + AwaitingId < AccountLimit
       /\ alert' = showAlert("Processing image...", "info")
       /\ reg' = [IdleReg EXCEPT !.pc = "hashing", !.name = accountName,
                                 !.username = username, !.file = imageFile]
  /\ UNCHANGED <<accounts, serverDb, localStorage, fallbackShown, clock, load, gen, ver, timers,
                 selected, verifyFile, detailsVisible, accountUsername, downloads, registered>>
  /\ lastVerify' = NoVerify
  /\ failed' = None
  /\ UNCHANGED <<hashVars, canvasVars, drawVars, raceVars>>

\* registerAccount from the image load to the request of addAccount.
RegisterHash ==
  /\ reg.pc = "hashing"
  /\ IF ~ loadImage(reg.file) THEN
       /\ alert' = showAlert("Error: Failed to load image", "danger")
       /\ reg' = IdleReg
       /\ failed' = "registerAccount"
       /\ UNCHANGED clock
     ELSE
       LET hash == generateImageHash(reg.file[2])
           password == generatePassword(hash)
       IN  /\ reg' = [reg EXCEPT !.pc = "adding",
                                 !.newAccount = Account(DateNow(clock + 1), reg.name, reg.username,
                                                        password, "", "uploaded", Undefined,
                                                        ISOString(clock + 1))]
           /\ clock' = clock + 1
           /\ failed' = None
           /\ UNCHANGED alert
  /\ UNCHANGED <<accounts, serverDb, localStorage, fallbackShown, load, gen, ver, timers,
                 selected, verifyFile, detailsVisible, accountUsername, downloads, registered>>
  /\ lastVerify' = NoVerify
  /\ UNCHANGED <<hashVars, canvasVars, drawVars, raceVars>>

\* registerAccount from the answer of addAccount to its end.
RegisterAdd(serverUp) ==
  /\ reg.pc = "adding"
  /\ LET res == addAccount(serverDb, localStorage, AddAccountArgs(reg.newAccount), serverUp, clock)
     IN  /\ serverDb' = res.db
         /\ localStorage' = res.ls
         /\ fallbackShown' = (fallbackShown \/ res.fallback)
  /\ accounts' = Append(accounts, reg.newAccount)
  /\ selected' = ""
  /\ detailsVisible' = FALSE
  /\ alert' = showAlert("Account registered successfully!", "success")
  /\ registered' = [id \in DOMAIN registered \cup {reg.newAccount.id} |->
                      IF id = reg.newAccount.id
                      THEN [type |-> "uploaded", file |-> reg.file]
                      ELSE registered[id]]
  /\ reg' = IdleReg
  /\ UNCHANGED <<clock, load, gen, ver, timers, verifyFile, accountUsername, downloads>>
  /\ lastVerify' = NoVerify
  /\ failed' = None
  /\ UNCHANGED <<hashVars, canvasVars, drawVars, raceVars>>

\* generateImagePassword up to its first await.
GenerateStart(accountName, username, randomValues) ==
  /\ gen.pc = "idle"
  /\ IF accountName = "" THEN
       /\ alert' = showAlert("Please enter an account name", "danger")
       /\ UNCHANGED gen
     ELSE IF username = "" THEN
       /\ alert' = showAlert("Please enter a username", "danger")
       /\ UNCHANGED gen
     ELSE IF NameTaken(accountName) THEN
       /\ alert' = showAlert("An account with this name already exists", "danger")
       /\ UNCHANGED gen
     ELSE
       /\ clock + AwaitingId < AccountLimit
       /\ alert' = showAlert("Generating password image...", "info")
       /\ gen' = [IdleGen EXCEPT !.pc = "rendering", !.name = accountName,
                                 !.username = username,
                                 !.rawPassword = generateRandomPassword(randomValues)]
  /\ UNCHANGED <<accounts, serverDb, localStorage, fallbackShown, clock, load, reg, ver, timers,
                 selected, verifyFile, detailsVisible, accountUsername, downloads, registered>>
  /\ lastVerify' = NoVerify
  /\ failed' = None
  /\ UNCHANGED <<hashVars, canvasVars, drawVars, raceVars>>

\* An account object that stores the seed itself as the credential.
GeneratedAccountStoringSeed(id, name, username, imageHash, rawPassword, createdAt) ==
  Account(id, name, username, rawPassword, "", "generated", Undefined, createdAt)

\* The newAccount object of generateImagePassword, built where rawPassword is
\* in scope: it has no rawSeed property.
GeneratedAccount(id, name, username, imageHash, rawPassword, createdAt) ==
  Account(id, name, username, imageHash, "", "generated", Undefined, createdAt)

\* generateImagePassword from the rendering to the request of addAccount;
\* blobOk says whether the blob of the canvas loads as an image in
\* calculateImagePerceptualHash (img.onload) or not (img.onerror).
GenerateHash(blobOk) ==
  /\ gen.pc = "rendering"
  /\ IF ~ blobOk THEN
       /\ alert' = showAlert("Error: Failed to load image for hashing", "danger")
       /\ gen' = IdleGen
       /\ failed' = "generateImagePassword"
       /\ UNCHANGED clock
     ELSE
       LET imageBlob == generateImageFromPassword(gen.rawPassword)
           imageHash == calculateImagePerceptualHash(imageBlob[2])
       IN  /\ gen' = [gen EXCEPT !.pc = "adding",
                                 !.imageBlob = imageBlob,
                                 !.newAccount = GeneratedAccount(DateNow(clock + 1), gen.name,
                                                                 gen.username, imageHash,
                                                                 gen.rawPassword,
                                                                 ISOString(clock + 1))]
           /\ clock' = clock + 1
           /\ failed' = None
           /\ UNCHANGED alert
  /\ UNCHANGED <<accounts, serverDb, localStorage, fallbackShown, load, reg, ver, timers,
                 selected, verifyFile, detailsVisible, accountUsername, downloads, registered>>
  /\ lastVerify' = NoVerify
  /\ UNCHANGED <<hashVars, canvasVars, drawVars, raceVars>>

\* generateImagePassword from the answer of addAccount to its end; the click
\* on the download link hands the image to the user.
GenerateAdd(serverUp) ==
  /\ gen.pc = "adding"
  /\ LET res == addAccount(serverDb, localStorage, AddAccountArgs(gen.newAccount), serverUp, clock)
     IN  /\ serverDb' = res.db
         /\ localStorage' = res.ls
         /\ fallbackShown' = (fallbackShown \/ res.fallback)
  /\ accounts' = Append(accounts, gen.newAccount)
  /\ selected' = ""
  /\ detailsVisible' = FALSE
  /\ downloads' = downloads \cup {gen.imageBlob}
  /\ alert' = showAlert("Password image generated and downloaded!", "success")
  /\ registered' = [id \in DOMAIN registered \cup {gen.newAccount.id} |->
                      IF id = gen.newAccount.id
                      THEN [type |-> "generated", file |-> gen.imageBlob]
                      ELSE registered[id]]
  /\ gen' = IdleGen
  /\ UNCHANGED <<clock, load, reg, ver, timers, verifyFile, accountUsername>>
  /\ lastVerify' = NoVerify
  /\ failed' = None
  /\ UNCHANGED <<hashVars, canvasVars, drawVars, raceVars>>

\* String.prototype.toUpperCase on a string of ASCII characters.
ToUpperCase(str) == [i \in 1..Len(str) |-> IF str[i] >= 97 /\ str[i] <= 122 THEN str[i] - 32 ELSE str[i]]

\* verifyImagePassword comparing the two digests without regard to case.
verifyImagePasswordIgnoringCase(grid, storedHash) ==
  ToUpperCase(generatePassword(verifyImagePasswordHash(grid))) = ToUpperCase(storedHash)

\* ImagePasswordSystem.verifyImagePassword, from the pixel data on.
verifyImagePassword(grid, storedHash) ==
  generatePassword(verifyImagePasswordHash(grid)) = storedHash

\* verifyImagePassword of the earlier version of the class (js/image-password.js).
verifyImagePasswordEarlier(grid, storedHash) ==
  generatePassword(generateImageHash(grid)) = storedHash

\* The generated branch hashing the fingerprint once more before it compares.
VerifyGeneratedHashed(grid, account) ==
  generatePassword(generateImageHash(grid)) = account.password

\* The comparison verifyImage makes for an account of type 'generated'.
VerifyGenerated(grid, account) == generateImageHash(grid) = account.password

\* The provenance verifyImage reads from an account: 'generated' when the
\* type says so, 'uploaded' for any other account.
Provenance(account) == IF account.type = "generated" THEN "generated" ELSE "uploaded"

\* verifyImage with the fingerprint compared unhashed in both branches.
IsMatchUnhashed(grid, account) == generateImageHash(grid) = account.password

\* A branch that takes the uploaded formula for the type 'uploaded' only.
IsMatchUploadedOnly(grid, account) ==
  IF account.type = "uploaded"
  THEN verifyImagePassword(grid, account.password)
  ELSE VerifyGenerated(grid, account)

\* The branch of verifyImage on the account type.
IsMatch(grid, account) ==
  IF account.type = "generated"
  THEN VerifyGenerated(grid, account)
  ELSE verifyImagePassword(grid, account.password)

\* verifyImage up to its first await.
VerifyStart ==
  /\ ver.pc = "idle"
  /\ IF verifyFile # NoFile THEN
       /\ ver' = [IdleVer EXCEPT !.pc = "reading", !.accountId = selected, !.file = verifyFile]
       /\ UNCHANGED alert
     ELSE
       /\ alert' = showAlert("Please select an image", "danger")
       /\ UNCHANGED ver
  /\ UNCHANGED <<accounts, serverDb, localStorage, fallbackShown, clock, load, reg, gen, timers,
                 selected, verifyFile, detailsVisible, accountUsername, downloads, registered>>
  /\ lastVerify' = NoVerify
  /\ failed' = None
  /\ UNCHANGED <<hashVars, canvasVars, drawVars, raceVars>>

\* verifyImage from the answer of the FileReader to the lookup of the account.
VerifyRead(readOk) ==
  /\ ver.pc = "reading"
  /\ IF ~ readOk THEN
       /\ ver' = IdleVer
       /\ lastVerify' = [NoVerify EXCEPT !.outcome = "unreadable", !.accountId = ver.accountId,
                                         !.file = ver.file]
       /\ UNCHANGED <<detailsVisible, alert>>
     ELSE IF ver.accountId = "" THEN
       /\ detailsVisible' = FALSE
       /\ alert' = showAlert("Please select an account", "danger")
       /\ ver' = IdleVer
       /\ lastVerify' = NoVerify
     ELSE IF ~ \E i \in 1..Len(accounts) : accounts[i].id = ver.accountId THEN
       /\ detailsVisible' = FALSE
       /\ alert' = showAlert("Account not found", "danger")
       /\ ver' = IdleVer
       /\ lastVerify' = NoVerify
     ELSE
       /\ detailsVisible' = FALSE
       /\ alert' = showAlert("Verifying image...", "info")
       /\ ver' = [ver EXCEPT !.pc = "verifying", !.account = Find(ver.accountId)]
       /\ lastVerify' = NoVerify
  /\ UNCHANGED <<accounts, serverDb, localStorage, fallbackShown, clock, load, reg, gen, timers,
                 selected, verifyFile, accountUsername, downloads, registered>>
  /\ failed' = None
  /\ UNCHANGED <<hashVars, canvasVars, drawVars, raceVars>>

\* verifyImage from the image load to the scheduling of the reset.
VerifyFinish ==
  /\ ver.pc = "verifying"
  /\ timers < TimerLimit
  /\ IF ~ loadImage(ver.file) THEN
       /\ alert' = showAlert("Error: Failed to load image", "danger")
       /\ lastVerify' = [outcome |-> "error", accountId |-> ver.account.id,
                         type |-> ver.account.type, password |-> ver.account.password,
                         file |-> ver.file]
       /\ UNCHANGED <<detailsVisible, accountUsername>>
     ELSE IF IsMatch(ver.file[2], ver.account) THEN
       /\ accountUsername' = ver.account.username
       /\ detailsVisible' = TRUE
       /\ alert' = showAlert("Authentication successful!", "success")
       /\ lastVerify' = [outcome |-> "match", accountId |-> ver.account.id,
                         type |-> ver.account.type, password |-> ver.account.password,
                         file |-> ver.file]
     ELSE
       /\ detailsVisible' = FALSE
       /\ alert' = showAlert("Authentication failed. The image does not match.", "danger")
       /\ lastVerify' = [outcome |-> "mismatch", accountId |-> ver.account.id,
                         type |-> ver.account.type, password |-> ver.account.password,
                         file |-> ver.file]
       /\ UNCHANGED accountUsername
  /\ timers' = timers + 1
  /\ ver' = IdleVer
  /\ UNCHANGED <<accounts, serverDb, localStorage, fallbackShown, clock, load, reg, gen,
                 selected, verifyFile, downloads, registered>>
  /\ failed' = None
  /\ UNCHANGED <<hashVars, canvasVars, drawVars, raceVars>>

\* A reset that also empties the in-memory account list.
FullResetForgettingAccounts ==
  /\ timers > 0
  /\ timers' = timers - 1
  /\ detailsVisible' = FALSE
  /\ verifyFile' = NoFile
  /\ alert' = showAlert("Verification has been fully reset", "info")
  /\ lastVerify' = NoVerify
  /\ accounts' = <<>>
  /\ UNCHANGED <<serverDb, localStorage, fallbackShown, clock, load, reg, gen, ver,
                 selected, accountUsername, downloads, registered>>
  /\ failed' = None
  /\ UNCHANGED <<hashVars, canvasVars, drawVars, raceVars>>

\* A reset that leaves the file in the verify input.
FullResetKeepingFile ==
  /\ timers > 0
  /\ timers' = timers - 1
  /\ detailsVisible' = FALSE
  /\ alert' = showAlert("Verification has been fully reset", "info")
  /\ lastVerify' = [NoVerify EXCEPT !.outcome = "reset"]
  /\ UNCHANGED <<accounts, serverDb, localStorage, fallbackShown, clock, load, reg, gen, ver,
                 selected, verifyFile, accountUsername, downloads, registered>>
  /\ failed' = None
  /\ UNCHANGED <<hashVars, canvasVars, drawVars, raceVars>>

\* The timer callback: fullResetVerification.
FullResetVerification ==
  /\ timers > 0
  /\ timers' = timers - 1
  /\ detailsVisible' = FALSE
  /\ verifyFile' = NoFile
  /\ alert' = showAlert("Verification has been fully reset", "info")
  /\ lastVerify' = [NoVerify EXCEPT !.outcome = "reset"]
  /\ UNCHANGED <<accounts, serverDb, localStorage, fallbackShown, clock, load, reg, gen, ver,
                 selected, accountUsername, downloads, registered>>
  /\ failed' = None
  /\ UNCHANGED <<hashVars, canvasVars, drawVars, raceVars>>

\* The user changes the selection: updateAccountSelection and
\* handleAccountSelectionChange.
SelectAccount(accountId) ==
  /\ accountId # selected
  /\ accountId = "" \/ \E i \in 1..Len(accounts) : accounts[i].id = accountId
  /\ selected' = accountId
  /\ detailsVisible' = FALSE
  /\ verifyFile' = NoFile
  /\ alert' = None
  /\ UNCHANGED <<accounts, serverDb, localStorage, fallbackShown, clock, load, reg, gen, ver,
                 timers, accountUsername, downloads, registered>>
  /\ lastVerify' = NoVerify
  /\ failed' = None
  /\ UNCHANGED <<hashVars, canvasVars, drawVars, raceVars>>

\* The user puts a file in #verify-image.
ChooseVerifyFile(file) ==
  /\ file # verifyFile
  /\ verifyFile' = file
  /\ UNCHANGED <<accounts, serverDb, localStorage, fallbackShown, clock, load, reg, gen, ver,
                 timers, selected, detailsVisible, accountUsername, alert, downloads, registered>>
  /\ lastVerify' = NoVerify
  /\ failed' = None
  /\ UNCHANGED <<hashVars, canvasVars, drawVars, raceVars>>

\* loadAccounts from the answer of getAllAccounts on.
LoadAccounts(serverUp) ==
  /\ load = "fetching"
  /\ load' = "done"
  /\ accounts' = getAllAccounts(serverDb, localStorage, serverUp)
  /\ fallbackShown' = (fallbackShown \/ ~ serverUp)
  /\ alert' = IF serverUp THEN alert
              ELSE fallbackToLocalStorage(
                     "Error connecting to server. Using local storage as fallback.",
                     fallbackShown, alert)
  /\ selected' = ""
  /\ detailsVisible' = FALSE
  /\ UNCHANGED <<serverDb, localStorage, clock, reg, gen, ver, timers, verifyFile,
                 accountUsername, downloads, registered>>
  /\ lastVerify' = NoVerify
  /\ failed' = None
  /\ UNCHANGED <<hashVars, canvasVars, drawVars, raceVars>>

\* loadAccounts up to the answer of getAllAccounts: the server (or, when it
\* is down, localStorage) is read now and the list is assigned later.
LoadAnswer(serverUp) ==
  /\ load = "fetching"
  /\ load' = "answered"
  /\ fetched' = [accounts |-> getAllAccounts(serverDb, localStorage, serverUp), serverUp |-> serverUp]
  /\ UNCHANGED <<accounts, serverDb, localStorage, fallbackShown, clock, reg, gen, ver, timers,
                 selected, verifyFile, detailsVisible, accountUsername, alert, downloads, registered>>
  /\ lastVerify' = NoVerify
  /\ failed' = None
  /\ UNCHANGED <<hashVars, canvasVars, drawVars, patient>>

\* loadAccounts from this.accounts = accounts on.
LoadAssign ==
  /\ load = "answered"
  /\ load' = "done"
  /\ accounts' = fetched.accounts
  /\ fetched' = NoFetch
  /\ fallbackShown' = (fallbackShown \/ ~ fetched.serverUp)
  /\ alert' = IF fetched.serverUp THEN alert
              ELSE fallbackToLocalStorage(
                     "Error connecting to server. Using local storage as fallback.",
                     fallbackShown, alert)
  /\ selected' = ""
  /\ detailsVisible' = FALSE
  /\ UNCHANGED <<serverDb, localStorage, clock, reg, gen, ver, timers, verifyFile,
                 accountUsername, downloads, registered>>
  /\ lastVerify' = NoVerify
  /\ failed' = None
  /\ UNCHANGED <<hashVars, canvasVars, drawVars, patient>>

\* PasswordManager.deleteAccount, confirmed by the user.
DeleteAccount(accountId, serverUp) ==
  /\ \E i \in 1..Len(accounts) : accounts[i].id = accountId
  /\ LET res == deleteAccount(serverDb, localStorage, accountId, serverUp)
     IN  /\ serverDb' = res.db
         /\ localStorage' = res.ls
         /\ fallbackShown' = (fallbackShown \/ res.fallback)
         /\ IF res.threw THEN
              /\ alert' = showAlert("Error deleting account: No accounts found in local storage", "danger")
              /\ UNCHANGED <<accounts, selected, detailsVisible>>
            ELSE
              /\ accounts' = FilterOut(accounts, accountId)
              /\ selected' = ""
              /\ detailsVisible' = FALSE
              /\ alert' = showAlert("Account deleted successfully!", "success")
  /\ UNCHANGED <<clock, load, reg, gen, ver, timers, verifyFile, accountUsername, downloads,
                 registered>>
  /\ lastVerify' = NoVerify
  /\ failed' = None
  /\ UNCHANGED <<hashVars, canvasVars, drawVars, raceVars>>

\* The credentials an account is updated to: the credential of the first
\* photograph written in capitals.
UpdateData ==
  {[name |-> "site1", username |-> "user",
    password |-> ToUpperCase(sha256(generateImageHash(PhotoGrid(1)))), notes |-> ""]}

\* DatabaseClient.updateAccount(id, data) for an account of the store.
UpdateAccount(accountId, data, serverUp) ==
  /\ accountId \in DOMAIN registered
  /\ LET res == updateAccount(serverDb, localStorage, accountId, data, serverUp)
     IN  /\ ~ res.threw
         /\ serverDb' = res.db
         /\ localStorage' = res.ls
         /\ fallbackShown' = (fallbackShown \/ res.fallback)
         /\ alert' = IF res.fallback
                     THEN fallbackToLocalStorage(
                            "Error connecting to server. Updating in local storage as fallback.",
                            fallbackShown, alert)
                     ELSE alert
  /\ registered' = [registered EXCEPT ![accountId].file = NoFile]
  /\ UNCHANGED <<accounts, clock, load, reg, gen, ver, timers, selected, verifyFile,
                 detailsVisible, accountUsername, downloads>>
  /\ lastVerify' = NoVerify
  /\ failed' = None
  /\ UNCHANGED <<hashVars, canvasVars, drawVars, raceVars>>

\* The page is loaded again: new PasswordManager().
Reload ==
  /\ accounts' = <<>>
  /\ load' = "fetching"
  /\ reg' = IdleReg
  /\ gen' = IdleGen
  /\ ver' = IdleVer
  /\ timers' = 0
  /\ selected' = ""
  /\ verifyFile' = NoFile
  /\ detailsVisible' = FALSE
  /\ accountUsername' = ""
  /\ alert' = None
  /\ lastVerify' = NoVerify
  /\ UNCHANGED <<serverDb, localStorage, fallbackShown, clock, downloads, registered>>
  /\ failed' = None
  /\ UNCHANGED <<hashVars, canvasVars, drawVars, raceVars>>

\* What the user submits in the registration form: every name with every
\* file, and one form for each field left empty.
RegisterForms ==
  {<<accountName, "user", imageFile>> : accountName \in Names, imageFile \in UserFiles}
    \cup {<<"", "user", CorruptFile>>, <<"site1", "", CorruptFile>>, <<"site1", "user", NoFile>>}

GenerateForms ==
  {<<accountName, "user">> : accountName \in Names} \cup {<<"", "user">>, <<"site1", "">>}

(***************************************************************************)
(* The canvas of the ImagePasswordSystem.  A surface is the 8 x 8 bitmap   *)
(* in row-major order, each cell <<red, alpha>>; the images drawn on it    *)
(* are already scaled to 8 x 8 and grayscale, their cells opaque           *)
(* (alpha 255) or transparent (<<0, 0>>).                                  *)
(***************************************************************************)
\* document.createElement('canvas'): a transparent bitmap.
NewCanvas == [k \in 1..64 |-> <<0, 0>>]

\* A canvas whose bitmap survives the assignment of its size.
KeepBitmap(surface) == surface

\* this.canvas.width = 8; this.canvas.height = 8: assigning the size of a
\* canvas clears its bitmap to transparent black.
SetCanvasSize(surface) == [k \in 1..64 |-> <<0, 0>>]

\* this.ctx.drawImage(image, 0, 0, 8, 8): source-over compositing of the
\* cells of the image on the surface.
\* An image of zero width or height is not usable and nothing is drawn.
drawImage(surface, image) ==
  IF Len(image) = 0 THEN surface
  ELSE [k \in 1..64 |-> IF image[k][2] = 255 THEN image[k] ELSE surface[k]]

\* this.ctx.getImageData(0, 0, 8, 8).data of a surface.
SurfaceData(surface) ==
  [i \in 1..256 |->
     IF (i - 1) % 4 = 3 THEN surface[((i - 1) \div 4) + 1][2]
     ELSE surface[((i - 1) \div 4) + 1][1]]

\* An opaque image of the grid, and the image with the cells of the left
\* half of each row transparent.
Opaque(grid) == [k \in 1..64 |-> <<grid[k], 255>>]

CutOut(grid) == [k \in 1..64 |-> IF (k - 1) % 8 < 4 THEN <<0, 0>> ELSE <<grid[k], 255>>]

\* A file that holds an image of zero width or height: it has no pixels.
EmptyImageFile == <<"empty", <<>>>>

\* The files handed to generateImageHash.
CanvasFiles ==
  {ImageFile(Opaque(PhotoGrid(1))), ImageFile(Opaque(PhotoGrid(2))),
   ImageFile(CutOut(PhotoGrid(3))), CorruptFile, EmptyImageFile}

\* The outcomes of loadImage: img.onload (TRUE) or img.onerror (FALSE).  Which
\* of the two an image of zero width or height fires depends on the format
\* and on the browser's decoder.
ImageLoads(file) == IF file = EmptyImageFile THEN BOOLEAN ELSE {loadImage(file)}

IdleCall == [pc |-> "idle", file |-> NoFile, result |-> <<>>]

\* generateImageHash(imageFile) up to its await of loadImage.
CallGenerateImageHash(c, file) ==
  /\ calls[c].pc # "loading"
  /\ calls' = [calls EXCEPT ![c] = [pc |-> "loading", file |-> file, result |-> <<>>]]
  /\ UNCHANGED canvas

\* generateImageHash from the answer of loadImage to its return: the code
\* has no await in between, so the canvas is sized, drawn and read in one
\* step.
ImageLoaded(c, loaded) ==
  /\ calls[c].pc = "loading"
  /\ loaded \in ImageLoads(calls[c].file)
  /\ IF ~ loaded THEN
       /\ calls' = [calls EXCEPT ![c].pc = "threw"]
       /\ UNCHANGED canvas
     ELSE
       LET surface == drawImage(SetCanvasSize(canvas), calls[c].file[2])
       IN  /\ canvas' = surface
           /\ calls' = [calls EXCEPT ![c].pc = "returned",
                                     ![c].result = binaryToHex(BinaryHash(SurfaceData(surface)))]


\* The forms and the file the user who does not wait works with.
RaceForms == {<<"site1", "alice", ImageFile(PhotoGrid(1))>>}

RaceFiles == {ImageFile(PhotoGrid(1))}

AppInit ==
  /\ accounts = <<>>
  /\ serverDb = <<>>
  /\ localStorage = <<>>
  /\ fallbackShown = FALSE
  /\ clock = 0
  /\ load = "fetching"
  /\ reg = IdleReg
  /\ gen = IdleGen
  /\ ver = IdleVer
  /\ timers = 0
  /\ selected = ""
  /\ verifyFile = NoFile
  /\ detailsVisible = FALSE
  /\ accountUsername = ""
  /\ alert = None
  /\ downloads = {}
  /\ registered = <<>>
  /\ lastVerify = NoVerify
  /\ failed = None
  /\ canvas = NewCanvas
  /\ calls = [c \in 1..MaxCalls |-> IdleCall]

Init ==
  /\ AppInit
  /\ hashIn = PhotoGrid(1)
  /\ hashOut = NoHash
  /\ digest = BytesDigest(0, 0)
  /\ drawn = <<>>
  /\ patient = TRUE
  /\ fetched = NoFetch

\* Handlers that have started and not run to their end.
Pending ==
  (IF load = "fetching" THEN 1 ELSE 0) + (IF reg.pc # "idle" THEN 1 ELSE 0)
    + (IF gen.pc # "idle" THEN 1 ELSE 0) + (IF ver.pc # "idle" THEN 1 ELSE 0)

\* The user of this specification acts when no handler is in flight.
UserActs == Pending = 0

AccountIds == {DateNow(t) : t \in 1..AccountLimit}

Next ==
  \/ UserActs /\ \E form \in RegisterForms : RegisterStart(form[1], form[2], form[3])
  \/ RegisterHash
  \/ \E serverUp \in BOOLEAN : RegisterAdd(serverUp)
  \/ UserActs /\ \E form \in GenerateForms, randomValues \in RandomDraws :
       GenerateStart(form[1], form[2], randomValues)
  \/ \E blobOk \in BOOLEAN : GenerateHash(blobOk)
  \/ \E serverUp \in BOOLEAN : GenerateAdd(serverUp)
  \/ UserActs /\ VerifyStart
  \/ \E readOk \in BOOLEAN : VerifyRead(readOk)
  \/ VerifyFinish
  \/ FullResetVerification
  \/ UserActs /\ \E accountId \in {""} \cup AccountIds : SelectAccount(accountId)
  \/ UserActs /\ \E file \in UserFiles : ChooseVerifyFile(file)
  \/ \E serverUp \in BOOLEAN : LoadAccounts(serverUp)
  \/ UserActs /\ \E accountId \in AccountIds, serverUp \in BOOLEAN :
       DeleteAccount(accountId, serverUp)
  \/ UserActs /\ \E accountId \in AccountIds, data \in UpdateData, serverUp \in BOOLEAN :
       UpdateAccount(accountId, data, serverUp)
  \/ UserActs /\ Reload

Spec == Init /\ [][Next]_vars

\* The hashing functions applied to the grids of TestGrids, the application
\* left as it starts.
HashInit ==
  /\ AppInit
  /\ hashIn \in TestGrids
  /\ hashOut = NoHash
  /\ digest = BytesDigest(0, 0)
  /\ drawn = <<>>
  /\ patient = TRUE
  /\ fetched = NoFetch

HashNext ==
  \/ HashGenerate /\ UNCHANGED <<appVars, canvasVars, drawVars, raceVars>>
  \/ HashVerify /\ UNCHANGED <<appVars, canvasVars, drawVars, raceVars>>
  \/ HashPerceptual /\ UNCHANGED <<appVars, canvasVars, drawVars, raceVars>>

HashSpec == HashInit /\ [][HashNext]_vars

\* The calls of generateImageHash on one ImagePasswordSystem, in any
\* interleaving of their image loads.
CanvasInit ==
  /\ AppInit
  /\ hashIn = PhotoGrid(1)
  /\ hashOut = NoHash
  /\ digest = BytesDigest(0, 0)
  /\ drawn = <<>>
  /\ patient = TRUE
  /\ fetched = NoFetch

CanvasNext ==
  \/ \E c \in 1..MaxCalls, file \in CanvasFiles : CallGenerateImageHash(c, file) /\ UNCHANGED <<appVars, hashVars, drawVars, raceVars>>
  \/ \E c \in 1..MaxCalls, loaded \in BOOLEAN : ImageLoaded(c, loaded) /\ UNCHANGED <<appVars, hashVars, drawVars, raceVars>>

CanvasSpec == CanvasInit /\ [][CanvasNext]_vars

\* The application with a user who does not wait: handlers are started
\* while others are in flight and loadAccounts is split at its await.
RaceInit ==
  /\ AppInit
  /\ hashIn = PhotoGrid(1)
  /\ hashOut = NoHash
  /\ digest = BytesDigest(0, 0)
  /\ drawn = <<>>
  /\ patient = FALSE
  /\ fetched = NoFetch

RaceNext ==
  \/ \E form \in RaceForms : RegisterStart(form[1], form[2], form[3])
  \/ RegisterHash
  \/ \E serverUp \in BOOLEAN : RegisterAdd(serverUp)
  \/ \E form \in RaceForms, randomValues \in RandomDraws : GenerateStart(form[1], form[2], randomValues)
  \/ \E blobOk \in BOOLEAN : GenerateHash(blobOk)
  \/ \E serverUp \in BOOLEAN : GenerateAdd(serverUp)
  \/ VerifyStart
  \/ \E readOk \in BOOLEAN : VerifyRead(readOk)
  \/ VerifyFinish
  \/ FullResetVerification
  \/ \E accountId \in {""} \cup AccountIds : SelectAccount(accountId)
  \/ \E file \in RaceFiles : ChooseVerifyFile(file)
  \/ \E serverUp \in BOOLEAN : LoadAnswer(serverUp)
  \/ LoadAssign

RaceSpec == RaceInit /\ [][RaceNext]_vars

\* Registration by upload and verification in one life of the page, under
\* fair scheduling: a handler that awaits a file read or an image load is
\* resumed, and a timer that was set fires.
LiveNext ==
  \/ UserActs /\ \E form \in RaceForms : RegisterStart(form[1], form[2], form[3])
  \/ RegisterHash
  \/ \E serverUp \in BOOLEAN : RegisterAdd(serverUp)
  \/ UserActs /\ VerifyStart
  \/ \E readOk \in BOOLEAN : VerifyRead(readOk)
  \/ VerifyFinish
  \/ FullResetVerification
  \/ UserActs /\ \E accountId \in {""} \cup AccountIds : SelectAccount(accountId)
  \/ UserActs /\ \E file \in Photos \cup {CorruptFile} : ChooseVerifyFile(file)
  \/ \E serverUp \in BOOLEAN : LoadAccounts(serverUp)

LiveSpec ==
  /\ Init
  /\ [][LiveNext]_vars
  /\ WF_vars(\E readOk \in BOOLEAN : VerifyRead(readOk))
  /\ WF_vars(VerifyFinish)
  /\ WF_vars(FullResetVerification)

\* Runs of the drawing code of generateImageFromPassword on a digest.
DrawInit ==
  /\ AppInit
  /\ hashIn = PhotoGrid(1)
  /\ hashOut = NoHash
  /\ digest \in TestDigests
  /\ drawn = <<>>
  /\ patient = TRUE
  /\ fetched = NoFetch

DrawNext == Draw /\ UNCHANGED <<appVars, hashVars, canvasVars, raceVars>>

DrawSpec == DrawInit /\ [][DrawNext]_vars

(***************************************************************************)
(* The fingerprint as the specification of the program defines it.         *)
(***************************************************************************)
\* Is a cell at least the arithmetic mean total / count of the cells?
AtLeastMean(cell, total, count) == cell * count >= total

\* The value of a lowercase hexadecimal digit character, 16 for any other.
LowerHexValue(c) ==
  IF c >= 48 /\ c <= 57 THEN c - 48 ELSE IF c >= 97 /\ c <= 102 THEN c - 87 ELSE 16

\* Bit k (1..64, row-major) of a fingerprint written in hexadecimal.
FingerprintBit(hex, k) ==
  (LowerHexValue(hex[((k - 1) \div 4) + 1]) \div (2 ^ (3 - ((k - 1) % 4)))) % 2

\* Bit i (from 0) of a string of the characters '0' and '1'.
BitAt(binary, i) == binary[i + 1] - 48

Uniform(grid) == \A k \in 1..Len(grid) : grid[k] = grid[1]

AllOnes == [j \in 1..16 |-> 102]

AllZeros == [j \in 1..16 |-> 48]

\* The lowercase hexadecimal digit of the value v in 0..15.
HexDigit(v) == <<48, 49, 50, 51, 52, 53, 54, 55, 56, 57, 97, 98, 99, 100, 101, 102>>[v + 1]

MeanBit(cell, total) == IF AtLeastMean(cell, total, 64) THEN 1 ELSE 0

\* The fingerprint of an 8x8 grid: 64 mean-threshold bits in row-major
\* order, packed four to a hexadecimal digit, first bit most significant.
SpecFingerprint(grid) ==
  LET total == SumRange(grid, 1, 64)
  IN  [j \in 1..16 |->
         HexDigit(8 * MeanBit(grid[4 * j - 3], total) + 4 * MeanBit(grid[4 * j - 2], total)
                    + 2 * MeanBit(grid[4 * j - 1], total) + MeanBit(grid[4 * j], total))]

\* A verification has run to its decision in the last step.
Decided == lastVerify.outcome \in {"match", "mismatch", "error"}

\* The provenance the account of the last verification was created with.
CreatedAs(type) ==
  /\ lastVerify.accountId \in DOMAIN registered
  /\ registered[lastVerify.accountId].type = type

\* The last verification was given the image its account was created with,
\* and the credential of the account has not been rewritten since.
SameImage ==
  /\ lastVerify.accountId \in DOMAIN registered
  /\ lastVerify.file = registered[lastVerify.accountId].file

(***************************************************************************)
(* Claims about verification and the account store, under Spec.            *)
(***************************************************************************)
\* C1: for an account of provenance 'uploaded' (its type says so, or it was
\* registered with an uploaded image), verifyImage reports a match if and
\* only if sha256(fingerprint(supplied image)) equals the stored credential,
\* character for character.
C1_UploadedMatchIff ==
  (Decided /\ (lastVerify.type = "uploaded" \/ CreatedAs("uploaded"))) =>
    (lastVerify.outcome = "match" <=>
       /\ loadImage(lastVerify.file)
       /\ sha256(SpecFingerprint(lastVerify.file[2])) = lastVerify.password)

\* An uploaded account has been verified with an image and matched.
C1_Witness ==
  /\ lastVerify.outcome = "match"
  /\ lastVerify.type = "uploaded"
  /\ CreatedAs("uploaded")

\* C2: for an account of provenance 'generated', verifyImage reports a match
\* if and only if the 16-digit fingerprint of the supplied image, not hashed
\* again, equals the stored credential.
C2_GeneratedMatchIff ==
  (Decided /\ lastVerify.type = "generated") =>
    (lastVerify.outcome = "match" <=>
       /\ loadImage(lastVerify.file)
       /\ Len(SpecFingerprint(lastVerify.file[2])) = 16
       /\ SpecFingerprint(lastVerify.file[2]) = lastVerify.password)

\* A generated account has been verified with its image and matched.
C2_Witness ==
  /\ lastVerify.outcome = "match"
  /\ lastVerify.type = "generated"
  /\ lastVerify.file \in downloads

\* registerAccount succeeds in this step.
RegisterSucceeds ==
  /\ reg.pc = "adding"
  /\ reg'.pc = "idle"
  /\ Len(accounts') = Len(accounts) + 1

\* C3: when registerAccount succeeds with image I the account it created
\* holds the credential sha256(fingerprint(I)) and the provenance
\* 'uploaded', the store holds that credential, and a later verifyImage of
\* that account with I reports a match.
C3_UploadRoundTrip ==
  [][/\ RegisterSucceeds =>
          LET created == accounts'[Len(accounts')]
              credential == sha256(SpecFingerprint(reg.file[2]))
          IN  /\ created.password = credential
              /\ created.type = "uploaded"
              /\ \E serverUp \in BOOLEAN :
                   \E i \in 1..Len(getAllAccounts(serverDb', localStorage', serverUp)) :
                     LET stored == getAllAccounts(serverDb', localStorage', serverUp)[i]
                     IN  stored.id = created.id /\ stored.password = credential
     /\ (Decided /\ CreatedAs("uploaded") /\ SameImage)' => lastVerify'.outcome = "match"
    ]_vars

\* An account registered with an image has been read back from the store
\* and verified with that image.
C3_Witness ==
  /\ Decided
  /\ CreatedAs("uploaded")
  /\ SameImage
  /\ lastVerify.outcome = "match"
  /\ load = "done"
  /\ reg.pc = "idle"

\* C4: verifyImage for an account generateImagePassword created, supplied
\* with the image G that call handed to the user, reports a match.
C4_GeneratedRoundTrip ==
  (Decided /\ CreatedAs("generated") /\ SameImage) => lastVerify.outcome = "match"

\* C5: every record the account store returns, from the server or from
\* localStorage, carries the provenance its account was created with.
C5_ProvenanceImmutable ==
  \A serverUp \in BOOLEAN :
    \A i \in 1..Len(getAllAccounts(serverDb, localStorage, serverUp)) :
      LET stored == getAllAccounts(serverDb, localStorage, serverUp)[i]
      IN  stored.id \in DOMAIN registered => Provenance(stored) = registered[stored.id].type

\* C6: for every credential c and every supplied image the uploaded formula
\* sha256(fingerprint) = c and the generated formula fingerprint = c never
\* both accept.
C6_BranchesDisjoint ==
  (Decided /\ loadImage(lastVerify.file)) =>
    LET grid == lastVerify.file[2]
    IN  \A c \in {lastVerify.password, generateImageHash(grid), sha256(generateImageHash(grid))} :
          ~ (IsMatch(grid, [NoAccount EXCEPT !.type = "uploaded", !.password = c])
               /\ IsMatch(grid, [NoAccount EXCEPT !.type = "generated", !.password = c]))

\* A credential the generated formula accepts has been refused by the
\* uploaded formula.
C6_Witness ==
  /\ lastVerify.outcome = "mismatch"
  /\ lastVerify.type = "uploaded"
  /\ loadImage(lastVerify.file)
  /\ SpecFingerprint(lastVerify.file[2]) = lastVerify.password

\* Every account record the program holds: the in-memory list, the rows of
\* the server and the records of localStorage.
AllRecords ==
  {accounts[i] : i \in 1..Len(accounts)}
    \cup {serverDb[i] : i \in 1..Len(serverDb)}
    \cup {SavedAccounts(localStorage)[i] : i \in 1..Len(SavedAccounts(localStorage))}

\* The record is of an account created in this behaviour whose credential no
\* update has rewritten; how is the provenance it was created with.
AsCreated(record, how) ==
  /\ record.id \in DOMAIN registered
  /\ registered[record.id].type = how
  /\ registered[record.id].file # NoFile

\* A string of n lowercase hexadecimal digits.
LowerHex(str, n) == Len(str) = n /\ \A i \in 1..Len(str) : LowerHexValue(str[i]) < 16

\* C11 as stated: the credential stored for every account, whichever
\* operation created it, has 64 lowercase hexadecimal digits.
C11_CredentialIsDigest ==
  \A record \in AllRecords :
    (AsCreated(record, "uploaded") \/ AsCreated(record, "generated")) =>
      LowerHex(record.password, 64)

\* C11 amended: the credential registerAccount stores has 64 lowercase
\* hexadecimal digits, the one generateImagePassword stores is the
\* fingerprint itself, 16 lowercase hexadecimal digits.
C11_CredentialLengthByProvenance ==
  \A record \in AllRecords :
    /\ AsCreated(record, "uploaded") => LowerHex(record.password, 64)
    /\ AsCreated(record, "generated") => LowerHex(record.password, 16)

\* The server holds the credential of a generated account: 16 digits.
C11_Witness ==
  \E i \in 1..Len(serverDb) :
    AsCreated(serverDb[i], "generated") /\ Len(serverDb[i].password) = 16

\* C12: a verifyImage attempt whose image cannot be read or cannot be
\* decoded ends with an error alert on display, and the account details are
\* not put on display by it.
C12_FailureSurfaced ==
  [][lastVerify'.outcome \in {"unreadable", "error"} =>
       /\ alert' = "danger"
       /\ detailsVisible' => detailsVisible
    ]_vars

(***************************************************************************)
(* Claims about the hashing functions, under HashSpec.                     *)
(***************************************************************************)

\* The account stores: the in-memory list, the server's table and the
\* browser's storage.
Stores == <<accounts, serverDb, localStorage>>

\* C13: a step of registerAccount that hashes a file which does not decode,
\* or a step of generateImagePassword whose fingerprint derivation fails,
\* ends the handler without a request to addAccount and leaves the in-memory
\* account list, the server's table and the browser's storage unchanged.
C13_NoPartialCredential ==
  [][/\ (reg.pc = "hashing" /\ reg.file[1] # "image" /\ reg' # reg)
          => (reg'.pc = "idle" /\ Stores' = Stores)
     /\ (gen.pc = "rendering" /\ gen' # gen /\ gen'.pc # "adding")
          => (gen'.pc = "idle" /\ Stores' = Stores)]_vars

\* registerAccount has just failed on an undecodable file and the stores hold
\* no record.
C13_Witness ==
  /\ failed = "registerAccount"
  /\ alert = "danger"
  /\ reg.pc = "idle"
  /\ accounts = <<>> /\ serverDb = <<>> /\ SavedAccounts(localStorage) = <<>>

\* generateImagePassword has just failed to derive the fingerprint.
C13_WitnessGenerate ==
  /\ failed = "generateImagePassword"
  /\ alert = "danger"
  /\ gen.pc = "idle"

\* C14: no account record of the in-memory list, of the server's table or of
\* the browser's storage holds a seed: its rawSeed is absent or null and its
\* credential is not a seed the generator can draw.
C14_SeedDiscarded ==
  \A record \in AllRecords :
    /\ record.rawSeed \in {Undefined, Null}
    /\ record.password \notin Seeds

\* An account registered by generation is in the in-memory list without a
\* rawSeed and in the server's table with a null rawSeed.
C14_Witness ==
  /\ \E i \in 1..Len(accounts) :
       /\ AsCreated(accounts[i], "generated")
       /\ accounts[i].rawSeed = Undefined
  /\ \E i \in 1..Len(serverDb) :
       /\ AsCreated(serverDb[i], "generated")
       /\ serverDb[i].rawSeed = Null

\* A step of verifyImage (its position changes or it ends an attempt) or of
\* the reset its timer runs.  The attempt that stops at "Please select an
\* image" changes the alert only.
VerifyStep ==
  \/ ver'.pc # ver.pc
  \/ lastVerify' # NoVerify
  \/ timers' = timers - 1 /\ alert' = "info"

\* C15: every step of a verifyImage attempt, whatever its outcome, and the
\* reset that follows it leave the in-memory account list, the server's table
\* and the browser's storage unchanged.
C15_VerifyLeavesStores ==
  [][VerifyStep => Stores' = Stores]_vars

\* A verification has just ended on a mismatch, a reset is scheduled, and
\* the account is still in the in-memory list and in the server's table.
C15_Witness ==
  /\ lastVerify.outcome = "mismatch"
  /\ timers > 0
  /\ \E i \in 1..Len(accounts) : accounts[i].id = lastVerify.accountId
  /\ \E i \in 1..Len(serverDb) : serverDb[i].id = lastVerify.accountId

\* The fingerprint of an image hashed alone: its transparent cells read as
\* zero, its opaque cells as their gray level.
OwnFingerprint(image) ==
  SpecFingerprint([k \in 1..64 |-> IF Len(image) = 64 /\ image[k][2] = 255 THEN image[k][1] ELSE 0])

\* C16: every call of generateImageHash on the shared instance that has
\* returned, returned the fingerprint of its own image, whatever calls were
\* in flight with it or ran before it.
C16_CallsIndependent ==
  \A c \in 1..MaxCalls :
    calls[c].pc = "returned" => calls[c].result = OwnFingerprint(calls[c].file[2])

\* Two calls have returned different fingerprints, one of them for the image
\* with transparent cells, hashed on the canvas another image was drawn on.
C16_Witness ==
  \E c \in 1..MaxCalls, d \in 1..MaxCalls :
    /\ calls[c].pc = "returned" /\ calls[d].pc = "returned"
    /\ calls[c].file = ImageFile(CutOut(PhotoGrid(3)))
    /\ calls[d].file = ImageFile(Opaque(PhotoGrid(1)))
    /\ calls[c].result # calls[d].result
    /\ canvas = calls[c].file[2]

\* Byte j (from 0) of a digest written in lowercase hexadecimal.
DigestByte(hash, j) == 16 * LowerHexValue(hash[2 * j + 1]) + LowerHexValue(hash[2 * j + 2])

C18_ShapeCount ==
  \A i \in 1..Len(drawn) :
    /\ Len(drawn[i].values) = 32
    /\ \A j \in 0..31 : drawn[i].values[j + 1] = DigestByte(digest, j)
    /\ Len(drawn[i].commands.shapes) = 20 + (DigestByte(digest, 3) % 30)
    /\ Len(drawn[i].commands.shapes) \in 20..49

\* A run has drawn 49 shapes, the most there can be.
C18_Witness ==
  /\ Len(drawn) > 0
  /\ DigestByte(digest, 3) % 30 = 29
  /\ Len(drawn[1].commands.shapes) = 49

\* C19: every shape is positioned inside the canvas: 0 <= x < canvasWidth and
\* 0 <= y < canvasHeight (x and y are kept as numerators over 255).
C19_PositionInsideCanvas ==
  \A i \in 1..Len(drawn) :
    \A n \in 1..Len(drawn[i].commands.shapes) :
      LET shape == drawn[i].commands.shapes[n]
      IN  /\ 0 <= shape.x /\ shape.x < canvasWidth * 255
          /\ 0 <= shape.y /\ shape.y < canvasHeight * 255

\* C20: hashing an image of zero width or height fails and produces no
\* fingerprint: no call of generateImageHash on such an image returns.
C20_ZeroSizeFails ==
  \A c \in 1..MaxCalls :
    calls[c].file = EmptyImageFile => calls[c].pc \in {"loading", "threw"}

\* C7: bit k of the fingerprint of a grid is 1 if and only if cell k is at
\* least the arithmetic mean of the 64 cells; a cell equal to the mean gives 1.
C7_BitIffAtLeastMean ==
  hashOut.path = "generateImageHash" =>
    /\ Len(hashOut.hex) = 16
    /\ LET total == SumRange(hashIn, 1, 64)
       IN  \A k \in 1..64 :
             FingerprintBit(hashOut.hex, k) = 1 <=> AtLeastMean(hashIn[k], total, 64)

\* A grid with cells equal to the mean, cells above it and cells below it.
C7_Witness ==
  /\ hashOut.path = "generateImageHash"
  /\ \E k \in 1..64 :
       /\ hashIn[k] * 64 = SumRange(hashIn, 1, 64)
       /\ FingerprintBit(hashOut.hex, k) = 1
  /\ \E k \in 1..64 : hashIn[k] * 64 < SumRange(hashIn, 1, 64) /\ FingerprintBit(hashOut.hex, k) = 0
  /\ \E k \in 1..64 : hashIn[k] * 64 > SumRange(hashIn, 1, 64)

\* C8: hex digit j of the fingerprint is 8*b[4j] + 4*b[4j+1] + 2*b[4j+2] +
\* b[4j+3] written as one lowercase hexadecimal digit, and the 64 bits of an
\* 8x8 grid give exactly 16 digits, in binaryToHex and in the loop of
\* calculateImagePerceptualHash.
C8_HexPacking ==
  hashOut.path # "none" =>
    /\ Len(hashOut.hex) = 16
    /\ \A j \in 0..15 :
         LowerHexValue(hashOut.hex[j + 1]) =
           8 * BitAt(hashOut.binary, 4 * j) + 4 * BitAt(hashOut.binary, 4 * j + 1)
             + 2 * BitAt(hashOut.binary, 4 * j + 2) + BitAt(hashOut.binary, 4 * j + 3)

\* A fingerprint with a digit above 9 whose four bits are not a palindrome.
C8_Witness ==
  /\ hashOut.path = "generateImageHash"
  /\ \E j \in 0..15 :
       /\ hashOut.hex[j + 1] \in 97..102
       /\ BitAt(hashOut.binary, 4 * j) # BitAt(hashOut.binary, 4 * j + 3)

\* C9: the fingerprint every hashing path produces has exactly 64 bits, one
\* for each cell of the grid.
C9_SixtyFourBits ==
  hashOut.path # "none" =>
    /\ Len(hashOut.binary) = Len(hashIn)
    /\ Len(hashOut.binary) = 64
    /\ \A i \in 0..63 : BitAt(hashOut.binary, i) \in {0, 1}
    /\ 4 * Len(hashOut.hex) = 64

\* The third hashing path has produced a fingerprint of 64 bits that are
\* not all alike.
C9_Witness ==
  /\ hashOut.path = "calculateImagePerceptualHash"
  /\ Len(hashOut.binary) = 64
  /\ \E i, j \in 0..63 : BitAt(hashOut.binary, i) # BitAt(hashOut.binary, j)

\* C10: a grid whose 64 cells are equal has a fingerprint that is all ones or
\* all zeros, and hashing it produces a fingerprint.
C10_UniformGrid ==
  (hashOut.path # "none" /\ Uniform(hashIn)) => hashOut.hex \in {AllOnes, AllZeros}

\* A uniform grid of a value strictly between 0 and 255 has been hashed.
C10_Witness ==
  /\ hashOut.path = "generateImageHash"
  /\ Uniform(hashIn)
  /\ hashIn[1] \in 1..254
  /\ hashOut.hex = AllOnes

\* The grids on which the credential comparison is evaluated.
DigestedGrids == {BandGrid(a, b, c, 16, 16, m) : a \in {0, 85}, b \in {0, 85}, c \in {0, 85}, m \in {1, 5}}

\* C21: the three fingerprint computations return the same hex string for
\* every grid (each path's result equals that of generateImageHash), and
\* verifyImagePassword decides as the earlier version of the class did, by
\* comparing generatePassword(generateImageHash(file)) with the stored value,
\* both for the matching credential and for one that does not match.
C21_FingerprintsEquivalent ==
  hashOut.path # "none" =>
    /\ hashOut.hex = generateImageHash(hashIn)
    /\ (hashOut.path = "verifyImagePassword" /\ hashIn \in DigestedGrids) =>
         \A storedHash \in {Sha256Hex(SpecFingerprint(hashIn)), AllZeros} :
           verifyImagePassword(hashIn, storedHash) = verifyImagePasswordEarlier(hashIn, storedHash)

\* The copy in calculateImagePerceptualHash has hashed a grid that is not
\* uniform and agrees with generateImageHash.
C21_Witness ==
  /\ hashOut.path = "calculateImagePerceptualHash"
  /\ ~ Uniform(hashIn)
  /\ hashOut.hex = generateImageHash(hashIn)
  /\ hashOut.hex # AllOnes

\* C22: no two accounts of the in-memory list have the same name, whatever
\* the interleaving of registerAccount and generateImagePassword.
C22_NamesUnique ==
  \A i \in 1..Len(accounts), j \in 1..Len(accounts) :
    i # j => accounts[i].name # accounts[j].name

\* C23: whenever the account-details panel is visible, an account is
\* selected in the selector and the username shown is that account's, also
\* when the selection changes while verifyImage is awaiting.
C23_DetailsOfSelected ==
  detailsVisible =>
    \E i \in 1..Len(accounts) :
      /\ accounts[i].id = selected
      /\ accounts[i].username = accountUsername

\* C24: every account whose registration completed is in the in-memory
\* account list (no account is deleted by the user who does not wait), also
\* when the registration completes while the constructor's loadAccounts is
\* awaiting the store.
C24_RegisteredStays ==
  \A id \in DOMAIN registered : \E i \in 1..Len(accounts) : accounts[i].id = id

\* C25: once addAccount has resolved for an id, getAllAccounts returns a
\* list containing that id and getAccount returns it, whether the server is
\* reachable during the call or not.
C25_ReadYourWrites ==
  [][\A handler \in {reg, gen} :
       (handler.pc = "adding" /\ accounts' # accounts) =>
         \A serverUp \in BOOLEAN :
           /\ \E i \in 1..Len(getAllAccounts(serverDb', localStorage', serverUp)) :
                getAllAccounts(serverDb', localStorage', serverUp)[i].id = handler.newAccount.id
           /\ getAccount(serverDb', localStorage', handler.newAccount.id, serverUp) # <<>>]_vars

\* C26: a verifyImage invocation that has passed its validation is
\* eventually followed by a fullResetVerification, whether it matched, did
\* not match or threw; and a reset leaves the account-details panel hidden
\* and the verify file input empty.
C26_ResetFollows ==
  /\ (ver.pc = "verifying") ~> (lastVerify.outcome = "reset")
  /\ [](lastVerify.outcome = "reset" => (~ detailsVisible /\ verifyFile = NoFile))

\* The reset has just run after a verification of an account that exists.
C26_Witness ==
  /\ lastVerify.outcome = "reset"
  /\ ~ detailsVisible
  /\ verifyFile = NoFile
  /\ selected # ""
  /\ timers = 0

\* C27: when two resets are pending and the panel is visible, the panel was
\* shown by the later verification (verifyImage hides it before it decides);
\* the reset that fires first, set by the earlier verification, leaves the
\* panel visible.
C27_EarlierResetSparesDetails ==
  [][(timers >= 2 /\ timers' = timers - 1 /\ detailsVisible) => detailsVisible']_vars

\* C28: a verification of an account whose type is absent or is not
\* 'generated' matches exactly when the sha256 of the fingerprint of the
\* image equals the credential; and every row the server inserted from a
\* request without a type has the type 'uploaded'.
C28_DefaultIsUploaded ==
  /\ (lastVerify.outcome \in {"match", "mismatch"} /\ lastVerify.type # "generated") =>
       (lastVerify.outcome = "match" <=>
          sha256(SpecFingerprint(lastVerify.file[2])) = lastVerify.password)
  /\ \A i \in 1..Len(serverDb) : serverDb[i].type = "uploaded"

\* An account read from localStorage, which has no type, has just been
\* verified with its image and matched.
C28_Witness ==
  /\ lastVerify.outcome = "match"
  /\ lastVerify.type = Undefined
  /\ Len(lastVerify.password) = 64

\* C29: no fingerprint is all zeros: the bit of every cell that holds the
\* maximum of the grid is 1, so the hex string is never 0000000000000000.
C29_NeverAllZeros ==
  hashOut.path # "none" =>
    /\ hashOut.hex # AllZeros
    /\ \A k \in 1..64 :
         (\A j \in 1..64 : hashIn[j] <= hashIn[k]) => BitAt(hashOut.binary, k - 1) = 1

\* The all-black grid has been hashed by calculateImagePerceptualHash: every
\* cell equals the mean, zero, and every bit is 1.
C29_Witness ==
  /\ hashOut.path = "calculateImagePerceptualHash"
  /\ \A k \in 1..64 : hashIn[k] = 0
  /\ hashOut.hex = AllOnes
====
